---------------------------- MODULE Spec2Model ----------------------------
(***************************************************************************)
(* A model of kats/detectors/detector_consts.py:                           *)
(*   ChangePointInterval  (the WindowedInterval of the design document),   *)
(*   PercentageChange     (the IntervalComparator),                        *)
(*   AnomalyResponse      (the RollingResponse).                           *)
(*                                                                         *)
(* A TimeSeriesData is a record [time, value] of two parallel sequences.   *)
(* A Python None is the record None; an Optional[X] is None or an X.       *)
(* A value handed to update/inplace_update is [float, v]: float = TRUE is  *)
(* a Python float, float = FALSE an array with one entry per column.       *)
(*                                                                         *)
(* obj is the object the calls are made on, pre what it was when the last  *)
(* call started, call that call and its arguments, ret what it returned    *)
(* and exc what it raised.                                                 *)
(***************************************************************************)
EXTENDS Integers, Sequences, FiniteSets, TLC

VARIABLES obj, ret, pre, call, exc, nops, entered

vars == <<obj, ret, pre, call, exc, nops, entered>>

-----------------------------------------------------------------------------
(* Bounds *)

\* largest timestamp handed to an operation
MaxTime == 3

\* longest component series of a bundle
MaxLen == 3

\* longest sequence of calls on one object
MaxOps == 2

\* largest N handed to get_last_n
MaxN == 3

Times == 1..MaxTime

-----------------------------------------------------------------------------
(* Python values *)

None == [none |-> TRUE]

NoCall == [op |-> "init"]

\* entered counts, for a comparator, how often its reads have started the
\* division of ratio_estimate, _ttest and _delta_method since construction
NoneEntered == [ratio_estimate |-> 0, _ttest |-> 0, _delta_method |-> 0]

Raised(type, msg) == [type |-> type, msg |-> msg]

Min(a, b) == IF a < b THEN a ELSE b

Max(a, b) == IF a < b THEN b ELSE a

TimeSeriesData(time, value) == [time |-> time, value |-> value]

ConfidenceBand(lower, upper) == [lower |-> lower, upper |-> upper]

\* s.iloc[1:] : everything but the first row (an empty series stays empty)
Iloc1_keep(s) == s

Iloc1(s) == IF s = <<>> THEN <<>> ELSE Tail(s)

\* s[-N:] for N >= 0; in Python -0 is 0, so s[-0:] is s[0:], the whole of s
LastN(s, N) == IF N = 0 THEN s ELSE SubSeq(s, Max(1, Len(s) - N + 1), Len(s))

\* ts[-N:] on a TimeSeriesData slices time and value alike
TsLastN(ts, N) == TimeSeriesData(LastN(ts.time, N), LastN(ts.value, N))

-----------------------------------------------------------------------------
(* AnomalyResponse *)

AnomalyResponse(scores, confidence_band, predicted_ts, anomaly_magnitude_ts, stat_sig_ts, num_series) ==
  [scores |-> scores, confidence_band |-> confidence_band,
   predicted_ts |-> predicted_ts, anomaly_magnitude_ts |-> anomaly_magnitude_ts,
   stat_sig_ts |-> stat_sig_ts, num_series |-> num_series,
   key_mapping |-> IF num_series = 1 THEN <<>> ELSE [i \in 1..num_series |-> i]]

\* the value one row gets: the float itself, or value[i] for each column
RowValue(self, value) ==
  IF self.num_series = 1 THEN value.v
  ELSE [i \in 1..Len(self.key_mapping) |-> value.v[i]]

\* _update_ts_slice: a new series, or the ValueError of a float handed to a
\* multivariate bundle
_update_ts_slice(self, ts, time, value) ==
  IF self.num_series > 1 /\ value.float
  THEN Raised("ValueError", "value should have type ArrayLike")
  ELSE TimeSeriesData(Iloc1(ts.time) \o <<time>>,
                      Iloc1(ts.value) \o <<RowValue(self, value)>>)

IsRaised(x) == "type" \in DOMAIN x

Outcome(self, r, e) == [self |-> self, ret |-> r, exc |-> e]

\* update, statement by statement; an exception leaves the assignments made
\* before it
update_step5(self, time, a) ==
  IF self.stat_sig_ts = None THEN Outcome(self, None, None)
  ELSE LET s == _update_ts_slice(self, self.stat_sig_ts, time, a.stat_sig) IN
       IF IsRaised(s) THEN Outcome(self, None, s)
       ELSE Outcome([self EXCEPT !.stat_sig_ts = s], None, None)

update_step4(self, time, a) ==
  LET s == _update_ts_slice(self, self.anomaly_magnitude_ts, time, a.anom_mag) IN
  IF IsRaised(s) THEN Outcome(self, None, s)
  ELSE update_step5([self EXCEPT !.anomaly_magnitude_ts = s], time, a)

update_step3(self, time, a) ==
  IF self.predicted_ts = None THEN update_step4(self, time, a)
  ELSE LET s == _update_ts_slice(self, self.predicted_ts, time, a.pred) IN
       IF IsRaised(s) THEN Outcome(self, None, s)
       ELSE update_step4([self EXCEPT !.predicted_ts = s], time, a)

update_step2(self, time, a) ==
  IF self.confidence_band = None THEN update_step3(self, time, a)
  ELSE LET lo == _update_ts_slice(self, self.confidence_band.lower, time, a.ci_lower)
           up == _update_ts_slice(self, self.confidence_band.upper, time, a.ci_upper)
       IN IF IsRaised(lo) THEN Outcome(self, None, lo)
          ELSE IF IsRaised(up) THEN Outcome(self, None, up)
          ELSE update_step3([self EXCEPT !.confidence_band = ConfidenceBand(lo, up)],
                            time, a)

update_copy(self, time, a) ==
  LET o == update_step2([self EXCEPT !.scores =
                           _update_ts_slice(self, self.scores, time, a.score)],
                        time, a)
  IN Outcome(self, o.self, None)

update(self, time, a) ==
  LET s == _update_ts_slice(self, self.scores, time, a.score) IN
  IF IsRaised(s) THEN Outcome(self, None, s)
  ELSE update_step2([self EXCEPT !.scores = s], time, a)

\* _inplace_update_ts with the row mask left out: every row is overwritten
_inplace_update_ts_every_row(self, ts, time, value) ==
  IF ts = None THEN ts
  ELSE LET new == IF self.num_series = 1 \/ ~value.float THEN RowValue(self, value)
                  ELSE [i \in 1..self.num_series |-> value.v]
       IN [ts EXCEPT !.value = [i \in 1..Len(ts.value) |-> new]]

\* _inplace_update_ts: overwrite the value of every row whose time matches;
\* np.array(value, dtype=float) spreads a float over all the columns
_inplace_update_ts(self, ts, time, value) ==
  IF ts = None THEN ts
  ELSE LET new == IF self.num_series = 1 \/ ~value.float THEN RowValue(self, value)
                  ELSE [i \in 1..self.num_series |-> value.v]
       IN [ts EXCEPT !.value = [i \in 1..Len(ts.value) |->
                                  IF ts.time[i] = time THEN new ELSE ts.value[i]]]

inplace_update(self, time, a) ==
  LET cb == self.confidence_band
      self1 == [self EXCEPT
                  !.scores = _inplace_update_ts(self, self.scores, time, a.score),
                  !.confidence_band =
                     IF cb = None THEN None
                     ELSE ConfidenceBand(
                            _inplace_update_ts(self, cb.lower, time, a.ci_lower),
                            _inplace_update_ts(self, cb.upper, time, a.ci_upper)),
                  !.predicted_ts =
                     _inplace_update_ts(self, self.predicted_ts, time, a.pred),
                  !.anomaly_magnitude_ts =
                     _inplace_update_ts(self, self.anomaly_magnitude_ts, time, a.anom_mag),
                  !.stat_sig_ts =
                     _inplace_update_ts(self, self.stat_sig_ts, time, a.stat_sig)]
  IN Outcome(self1, None, None)

get_last_n(self, N) ==
  LET cb == self.confidence_band
      pts == self.predicted_ts
      ssts == self.stat_sig_ts
  IN Outcome(self,
             AnomalyResponse(
               TsLastN(self.scores, N),
               IF cb = None THEN None
               ELSE ConfidenceBand(TsLastN(cb.lower, N), TsLastN(cb.upper, N)),
               IF pts = None THEN None ELSE TsLastN(pts, N),
               TsLastN(self.anomaly_magnitude_ts, N),
               IF ssts = None THEN None ELSE TsLastN(ssts, N),
               self.num_series),
             None)

\* the container's validation of a concatenated series: timestamps strictly
\* increasing (monotonic, non-overlapping)
ValidTimes(time) == \A i \in 1..(Len(time) - 1) : time[i] < time[i + 1]

\* TimeSeriesData.extend: the rows of other are appended; with validate set the
\* concatenated series is then checked
TsExtend(ts, other, validate) ==
  LET cat == TimeSeriesData(ts.time \o other.time, ts.value \o other.value) IN
  [ts |-> cat,
   exc |-> IF validate /\ ~ValidTimes(cat.time)
           THEN Raised("ValueError", "validation") ELSE None]

IsResponse(other) == "scores" \in DOMAIN other

\* the three presence checks of extend, in order: the component whose
\* presence differs first, or None
_check_components_two(self, other) ==
  IF (self.confidence_band = None) # (other.confidence_band = None)
  THEN Raised("ValueError", "confidence_band")
  ELSE IF (self.predicted_ts = None) # (other.predicted_ts = None)
  THEN Raised("ValueError", "predicted_ts")
  ELSE None

_check_components(self, other) ==
  IF (self.confidence_band = None) # (other.confidence_band = None)
  THEN Raised("ValueError", "confidence_band")
  ELSE IF (self.predicted_ts = None) # (other.predicted_ts = None)
  THEN Raised("ValueError", "predicted_ts")
  ELSE IF (self.stat_sig_ts = None) # (other.stat_sig_ts = None)
  THEN Raised("ValueError", "stat_sig_ts")
  ELSE None

extend_step5(self, other, validate) ==
  IF self.stat_sig_ts = None \/ other.stat_sig_ts = None
  THEN Outcome(self, None, None)
  ELSE LET e == TsExtend(self.stat_sig_ts, other.stat_sig_ts, validate) IN
       Outcome([self EXCEPT !.stat_sig_ts = e.ts], None, e.exc)

extend_step4(self, other, validate) ==
  LET e == TsExtend(self.anomaly_magnitude_ts, other.anomaly_magnitude_ts, validate)
      self1 == [self EXCEPT !.anomaly_magnitude_ts = e.ts]
  IN IF e.exc # None THEN Outcome(self1, None, e.exc)
     ELSE extend_step5(self1, other, validate)

extend_step3(self, other, validate) ==
  IF self.predicted_ts = None THEN extend_step4(self, other, validate)
  ELSE LET e == TsExtend(self.predicted_ts, other.predicted_ts, validate)
           self1 == [self EXCEPT !.predicted_ts = e.ts]
       IN IF e.exc # None THEN Outcome(self1, None, e.exc)
          ELSE extend_step4(self1, other, validate)

extend_step2(self, other, validate) ==
  IF self.confidence_band = None THEN extend_step3(self, other, validate)
  ELSE LET up == TsExtend(self.confidence_band.upper, other.confidence_band.upper, validate)
           self1 == [self EXCEPT !.confidence_band.upper = up.ts]
           lo == TsExtend(self.confidence_band.lower, other.confidence_band.lower, validate)
           self2 == [self1 EXCEPT !.confidence_band.lower = lo.ts]
       IN IF up.exc # None THEN Outcome(self1, None, up.exc)
          ELSE IF lo.exc # None THEN Outcome(self2, None, lo.exc)
          ELSE extend_step3(self2, other, validate)

\* extend with the presence checks moved after the concatenation of scores
extend_scores_first(self, other, validate) ==
  IF ~IsResponse(other)
  THEN Outcome(self, None, Raised("TypeError", "extend must take another AnomalyResponse object"))
  ELSE LET e == TsExtend(self.scores, other.scores, validate)
           self1 == [self EXCEPT !.scores = e.ts]
       IN IF e.exc # None THEN Outcome(self1, None, e.exc)
          ELSE IF _check_components(self, other) # None
          THEN Outcome(self1, None, _check_components(self, other))
          ELSE extend_step2(self1, other, validate)

extend(self, other, validate) ==
  IF ~IsResponse(other)
  THEN Outcome(self, None, Raised("TypeError", "extend must take another AnomalyResponse object"))
  ELSE IF _check_components(self, other) # None
  THEN Outcome(self, None, _check_components(self, other))
  ELSE LET e == TsExtend(self.scores, other.scores, validate)
           self1 == [self EXCEPT !.scores = e.ts]
       IN IF e.exc # None THEN Outcome(self1, None, e.exc)
          ELSE extend_step2(self1, other, validate)

-----------------------------------------------------------------------------
(* The bundles and the arguments the calls are tried on *)

\* the value of one point of a fresh series: a float, or one entry per column
PointValue(n, x) == IF n = 1 THEN x ELSE [i \in 1..n |-> 10 * i + x]

MkSeries(n, time, x) == TimeSeriesData(time, [i \in 1..Len(time) |-> PointValue(n, x)])

\* a well-formed bundle: every present component on the same timestamps
MkBundle(n, time, cb, pr, ss) ==
  AnomalyResponse(MkSeries(n, time, 0),
                  IF cb THEN ConfidenceBand(MkSeries(n, time, 0), MkSeries(n, time, 0))
                  ELSE None,
                  IF pr THEN MkSeries(n, time, 0) ELSE None,
                  MkSeries(n, time, 0),
                  IF ss THEN MkSeries(n, time, 0) ELSE None,
                  n)

\* the argument of update/inplace_update for component k of 1..6: a float for
\* a univariate bundle; for a multivariate one an array, except that the
\* caller hands a bare float for component floatAt
Arg(n, k, r, floatAt) ==
  IF n = 1 \/ floatAt = k THEN [float |-> TRUE, v |-> k * r]
  ELSE [float |-> FALSE, v |-> PointValue(n, k * r)]

Args(n, r, floatAt) ==
  [score |-> Arg(n, 1, r, floatAt), ci_upper |-> Arg(n, 2, r, floatAt),
   ci_lower |-> Arg(n, 3, r, floatAt), pred |-> Arg(n, 4, r, floatAt),
   anom_mag |-> Arg(n, 5, r, floatAt), stat_sig |-> Arg(n, 6, r, floatAt)]

\* 0: every argument an array; 1: score a float (raises before any assignment);
\* 5: anom_mag a float (raises after the earlier components were assigned)
FloatAts(n) == IF n = 1 THEN {0} ELSE {0, 1, 5}

\* the timestamps of the bundle handed to extend: later than, or overlapping,
\* the receiver's
OtherTimes == {<<MaxTime>>, <<1>>}

NotAResponse == [time |-> <<>>, value |-> <<>>]

Length(self) == Len(self.scores.time)

-----------------------------------------------------------------------------
(* The calls on one AnomalyResponse *)

RInit ==
  /\ \E n \in 1..2, L \in 0..2, cb \in BOOLEAN, pr \in BOOLEAN, ss \in BOOLEAN :
        obj = MkBundle(n, [i \in 1..L |-> i], cb, pr, ss)
  /\ ret = None
  /\ pre = obj
  /\ call = NoCall
  /\ exc = None
  /\ nops = 0
  /\ entered = NoneEntered

Apply(c, o) ==
  /\ nops < MaxOps
  /\ nops' = nops + 1
  /\ pre' = obj
  /\ call' = c
  /\ obj' = o.self
  /\ ret' = o.ret
  /\ exc' = o.exc
  /\ UNCHANGED entered

Update ==
  \E time \in Times, r \in 0..1, f \in FloatAts(obj.num_series) :
    LET a == Args(obj.num_series, r, f) IN
    Apply([op |-> "update", time |-> time, a |-> a], update(obj, time, a))

InplaceUpdate ==
  \E time \in Times, r \in 0..1, f \in FloatAts(obj.num_series) :
    LET a == Args(obj.num_series, r, f) IN
    Apply([op |-> "inplace_update", time |-> time, a |-> a],
          inplace_update(obj, time, a))

GetLastN ==
  \E N \in 0..MaxN :
    Apply([op |-> "get_last_n", N |-> N], get_last_n(obj, N))

Extend ==
  \E t \in OtherTimes, cb \in BOOLEAN, pr \in BOOLEAN, ss \in BOOLEAN, validate \in BOOLEAN :
    LET other == MkBundle(obj.num_series, t, cb, pr, ss) IN
    /\ Length(obj) + Len(t) <= MaxLen
    /\ Apply([op |-> "extend", other |-> other, validate |-> validate],
             extend(obj, other, validate))

ExtendNotAResponse ==
  \E validate \in BOOLEAN :
    Apply([op |-> "extend", other |-> NotAResponse, validate |-> validate],
          extend(obj, NotAResponse, validate))

RNext == Update \/ InplaceUpdate \/ GetLastN \/ Extend \/ ExtendNotAResponse

SpecR == RInit /\ [][RNext]_vars

-----------------------------------------------------------------------------
(* Reading a bundle component by component *)

CompNames == {"scores", "lower", "upper", "predicted_ts", "anomaly_magnitude_ts", "stat_sig_ts"}

OptionalNames == {"confidence_band", "predicted_ts", "stat_sig_ts"}

Comp(b, c) ==
  CASE c = "lower" -> IF b.confidence_band = None THEN None ELSE b.confidence_band.lower
    [] c = "upper" -> IF b.confidence_band = None THEN None ELSE b.confidence_band.upper
    [] OTHER -> b[c]

Present(b) == {c \in CompNames : Comp(b, c) # None}

ArgOf(a, c) ==
  CASE c = "scores" -> a.score
    [] c = "lower" -> a.ci_lower
    [] c = "upper" -> a.ci_upper
    [] c = "predicted_ts" -> a.pred
    [] c = "anomaly_magnitude_ts" -> a.anom_mag
    [] c = "stat_sig_ts" -> a.stat_sig

\* every present component has exactly L rows
AllOfLength(b, L) ==
  \A c \in Present(b) : Len(Comp(b, c).time) = L /\ Len(Comp(b, c).value) = L

Aligned(b) ==
  /\ AllOfLength(b, Length(b))
  /\ \A c \in Present(b) : Comp(b, c).time = b.scores.time

PresenceDiffers(a, b) == \E c \in OptionalNames : (a[c] = None) # (b[c] = None)

Returned(op) == call.op = op /\ exc = None

\* the last Min(N, Len(s)) entries of s
Trailing(s, N) == [i \in 1..Min(N, Len(s)) |-> s[Len(s) - Min(N, Len(s)) + i]]

-----------------------------------------------------------------------------
(* Properties of AnomalyResponse *)

\* C1: an update that returns, on a bundle whose present components all have
\* L >= 1 rows, leaves each of them with L rows: the former rows 2..L in their
\* order, then the new (time, value) pair.
C1_UpdateSlidesWindow ==
  (Returned("update") /\ Length(pre) >= 1 /\ AllOfLength(pre, Length(pre))) =>
    \A c \in Present(pre) :
      LET old == Comp(pre, c)
          new == Comp(obj, c)
          L == Length(pre)
      IN /\ new # None
         /\ Len(new.time) = L /\ Len(new.value) = L
         /\ \A i \in 1..(L - 1) :
              new.time[i] = old.time[i + 1] /\ new.value[i] = old.value[i + 1]
         /\ new.time[L] = call.time
         /\ new.value[L] = ArgOf(call.a, c).v

C1_Witness ==
  /\ Returned("update")
  /\ Length(pre) = 2 /\ Aligned(pre)
  /\ Present(pre) = CompNames
  /\ pre.num_series = 2
  /\ obj.scores.time # pre.scores.time

C3_ComponentsAligned ==
  /\ Aligned(obj)
  /\ IsResponse(ret) => Aligned(ret)

\* C4 as stated: extend(other) raises ValueError exactly when the presence of
\* one of the three optional components differs between receiver and other.
C4_ValueErrorIffPresenceDiffers ==
  (call.op = "extend" /\ IsResponse(call.other)) =>
    ((IsRaised(exc) /\ exc.type = "ValueError") <=> PresenceDiffers(pre, call.other))

\* C4 as amended: extend(other) raises the component-mismatch ValueError
\* exactly when the presence of one of the three optional components differs;
\* any other ValueError comes from the validation of a concatenated series,
\* with validate set and matching presence.
C4_MismatchErrorIffPresenceDiffers ==
  (call.op = "extend" /\ IsResponse(call.other)) =>
    /\ (IsRaised(exc) /\ exc.type = "ValueError" /\ exc.msg \in OptionalNames)
         <=> PresenceDiffers(pre, call.other)
    /\ (IsRaised(exc) /\ ~PresenceDiffers(pre, call.other)) =>
         (exc.type = "ValueError" /\ exc.msg = "validation" /\ call.validate)

C4_Witness ==
  /\ call.op = "extend" /\ IsResponse(call.other)
  /\ IsRaised(exc) /\ exc.msg = "stat_sig_ts"
  /\ (pre.confidence_band = None) = (call.other.confidence_band = None)
  /\ (pre.predicted_ts = None) = (call.other.predicted_ts = None)

\* C5: for every N >= 0, get_last_n(N) returns a new bundle whose present
\* components are the last min(N, L) rows of the receiver's (none for N = 0),
\* whose absent components are the receiver's absent ones, and leaves the
\* receiver as it was.
C5_LastNRows ==
  call.op = "get_last_n" =>
    /\ obj = pre
    /\ IsResponse(ret)
    /\ Present(ret) = Present(pre)
    /\ \A c \in Present(pre) :
         /\ Comp(ret, c).time = Trailing(Comp(pre, c).time, call.N)
         /\ Comp(ret, c).value = Trailing(Comp(pre, c).value, call.N)

-----------------------------------------------------------------------------
(* Floating point values *)

\* A float is [cls, kind, num, den]: cls "float" is a Python float, cls
\* "float64" a numpy scalar; kind "fin" is the number num/den in lowest
\* terms, kind "nan" is NaN, kind "inf" is num * infinity.

RECURSIVE GCD(_, _)
GCD(a, b) == IF b = 0 THEN a ELSE GCD(b, a % b)

Abs(x) == IF x < 0 THEN -x ELSE x

Fin(cls, num, den) ==
  LET g == GCD(Abs(num), Abs(den))
      sg == IF den < 0 THEN -1 ELSE 1
  IN [cls |-> cls, kind |-> "fin", num |-> (sg * num) \div g, den |-> (sg * den) \div g]

NaN(cls) == [cls |-> cls, kind |-> "nan", num |-> 0, den |-> 1]

Inf(cls, sign) == [cls |-> cls, kind |-> "inf", num |-> sign, den |-> 1]

PyZero == Fin("float", 0, 1)

NdArray(v) == [cls |-> "ndarray", v |-> v]

RECURSIVE Sum(_)
Sum(xs) == IF xs = <<>> THEN 0 ELSE Head(xs) + Sum(Tail(xs))

SumSq(xs) == Sum([i \in 1..Len(xs) |-> xs[i] * xs[i]])

\* np.mean(vals): NaN for an empty array
NpMean(vals) ==
  IF Len(vals) = 0 THEN NaN("float64") ELSE Fin("float64", Sum(vals), Len(vals))

\* np.var(vals, ddof=1): NaN when there are fewer than two values
NpVar_population(vals) ==
  LET n == Len(vals) IN
  IF n < 1 THEN NaN("float64")
  ELSE Fin("float64", n * SumSq(vals) - Sum(vals) * Sum(vals), n * n)

NpVar(vals) ==
  LET n == Len(vals) IN
  IF n < 2 THEN NaN("float64")
  ELSE Fin("float64", n * SumSq(vals) - Sum(vals) * Sum(vals), n * (n - 1))

-----------------------------------------------------------------------------
(* ChangePointInterval *)

\* spike_std_threshold: float = 2.0
DefaultSpikeThreshold == 2

SingleSpike(time, value, n_sigma) == [time |-> time, value |-> value, n_sigma |-> n_sigma]

\* data_df: the rows [time, v, z], v one value per column of _ts_cols, z one
\* value per z-score column that spike detection added to the frame
DataFrame(z_cols, rows) == [z_cols |-> z_cols, rows |-> rows]

ChangePointInterval(start_time, end_time, num_series) ==
  [start_time |-> start_time, end_time |-> end_time,
   _all_spikes |-> None, spike_std_threshold |-> DefaultSpikeThreshold,
   data_df |-> None, _ts_cols |-> <<"value">>, num_series |-> num_series]

\* a TimeSeriesData handed to the interval: value holds one tuple per row
Series(time, value, columns) == [time |-> time, value |-> value, columns |-> columns]

is_univariate(data) == Len(data.columns) = 1

\* data.to_dataframe(): one row per timestamp
to_dataframe(data) ==
  [i \in 1..Len(data.time) |-> [time |-> data.time[i], v |-> data.value[i], z |-> <<>>]]

\* .loc[(time >= start_time) & (time < end_time)]
InBounds_closed(self, rows) ==
  SelectSeq(rows, LAMBDA r : r.time >= self.start_time /\ r.time <= self.end_time)

InBounds(self, rows) ==
  SelectSeq(rows, LAMBDA r : r.time >= self.start_time /\ r.time < self.end_time)

\* the data setter; naming the columns fails when their number differs
data_setter(self, data) ==
  LET self1 == IF ~is_univariate(data)
               THEN [self EXCEPT !._ts_cols = data.columns,
                                 !.num_series = Len(data.columns)]
               ELSE self
  IN IF Len(data.columns) # Len(self1._ts_cols)
     THEN Outcome(self1, None, Raised("ValueError", "Length mismatch"))
     ELSE Outcome([self1 EXCEPT !.data_df = DataFrame(0, InBounds(self1, to_dataframe(data)))],
                  None, None)

\* pd.concat([df, new_data_df]): the new rows have NaN in the z-score columns
Concat(df, rows) ==
  DataFrame(df.z_cols,
            df.rows \o [i \in 1..Len(rows) |->
                          [rows[i] EXCEPT !.z = [k \in 1..df.z_cols |-> [kind |-> "nan"]]]])

extend_data(self, data) ==
  IF Len(data.columns) # Len(self._ts_cols)
  THEN Outcome(self, None, Raised("ValueError", "Length mismatch"))
  ELSE LET new == to_dataframe(data)
           all == IF self.data_df # None THEN Concat(self.data_df, new)
                  ELSE DataFrame(0, new)
       IN Outcome([self EXCEPT !.data_df = DataFrame(all.z_cols, InBounds(self, all.rows))],
                  None, None)

\* the values of column i of the frame
Column(df, i) == [k \in 1..Len(df.rows) |-> df.rows[k].v[i]]

Zeros(n) == NdArray([i \in 1..n |-> Fin("float64", 0, 1)])

mean_val(self) ==
  IF self.num_series = 1
  THEN IF self.data_df = None THEN PyZero ELSE NpMean(Column(self.data_df, 1))
  ELSE IF self.data_df = None THEN Zeros(self.num_series)
       ELSE NdArray([i \in 1..Len(self._ts_cols) |-> NpMean(Column(self.data_df, i))])

variance_val(self) ==
  IF self.num_series = 1
  THEN IF self.data_df = None \/ Len(self.data_df.rows) = 1 THEN PyZero
       ELSE NpVar(Column(self.data_df, 1))
  ELSE IF self.data_df = None \/ Len(self.data_df.rows) = 1 THEN Zeros(self.num_series)
       ELSE NdArray([i \in 1..Len(self._ts_cols) |-> NpVar(Column(self.data_df, i))])

__len__(self) == IF self.data_df = None THEN 0 ELSE Len(self.data_df.rows)

\* (value - mean) / np.sqrt(variance), kept as the pair of the deviation and
\* the variance under the root: [kind, dev, var]
ZScore(value, mean, var) ==
  IF mean.kind # "fin" \/ var.kind # "fin" THEN [kind |-> "nan"]
  ELSE LET dev == Fin("float64", value * mean.den - mean.num, mean.den) IN
       IF var.num = 0
       THEN IF dev.num = 0 THEN [kind |-> "nan"]
            ELSE [kind |-> "inf", sign |-> IF dev.num > 0 THEN 1 ELSE -1]
       ELSE [kind |-> "fin", dev |-> dev, var |-> var]

\* z_score >= threshold, for a threshold >= 0: squares compared exactly
AtLeast(z, threshold) ==
  CASE z.kind = "nan" -> FALSE
    [] z.kind = "inf" -> z.sign > 0
    [] OTHER -> /\ z.dev.num >= 0
                /\ z.dev.num * z.dev.num * z.var.den
                     >= threshold * threshold * z.var.num * z.dev.den * z.dev.den

\* the frame with the z-score column of column i added, from the mean and the
\* variance of that column
WithZScores(df, i, mean, var) ==
  DataFrame(df.z_cols + 1,
            [k \in 1..Len(df.rows) |->
               [df.rows[k] EXCEPT !.z = @ \o <<ZScore(df.rows[k].v[i], mean, var)>>]])

\* the spikes of column i, read off z-score column zc
SpikesOf(self, df, i, zc) ==
  LET hit == SelectSeq(df.rows, LAMBDA r : AtLeast(r.z[zc], self.spike_std_threshold))
  IN [k \in 1..Len(hit) |-> SingleSpike(hit[k].time, hit[k].v[i], hit[k].z[zc])]

\* the loop over the columns of a multivariate interval, from column i on:
\* each column adds its z-score column to the frame, and its spike list to
\* the result unless the list is empty
RECURSIVE DetectFrom(_, _, _, _)
DetectFrom(self, df, i, spikes) ==
  IF i > Len(self._ts_cols) THEN [df |-> df, spikes |-> spikes]
  ELSE LET df1 == WithZScores(df, i, mean_val(self).v[i], variance_val(self).v[i])
           found == SpikesOf(self, df1, i, df1.z_cols)
       IN DetectFrom(self, df1, i + 1,
                     IF found = <<>> THEN spikes ELSE Append(spikes, found))

_detect_spikes(self) ==
  IF self.data_df = None
  THEN Outcome(self, None, Raised("ValueError", "data must be set before spike detection"))
  ELSE IF self.num_series = 1
  THEN LET df1 == WithZScores(self.data_df, 1, mean_val(self), variance_val(self)) IN
       Outcome([self EXCEPT !.data_df = df1],
               [list |-> SpikesOf(self, df1, 1, df1.z_cols)], None)
  ELSE LET d == DetectFrom(self, self.data_df, 1, <<>>) IN
       Outcome([self EXCEPT !.data_df = d.df], [list |-> d.spikes], None)

\* the spikes property: detect on the first read, then return the stored list
spikes(self) ==
  IF self._all_spikes = None
  THEN LET d == _detect_spikes(self) IN
       IF d.exc # None THEN d
       ELSE Outcome([d.self EXCEPT !._all_spikes = d.ret], d.ret, None)
  ELSE Outcome(self, self._all_spikes, None)

-----------------------------------------------------------------------------
(* The intervals and the series the calls are tried on *)

\* longest sequence of calls on one interval
MaxCalls == 4

\* the [start_time, end_time) of the intervals
IntervalBounds == {<<1, 6>>, <<1, 7>>, <<2, 5>>, <<6, 7>>}

Univariate(time, xs) == Series(time, [i \in 1..Len(xs) |-> <<xs[i]>>], <<"y">>)

\* four ordinary points and one outlier
FivePoints == Univariate(<<1, 2, 3, 4, 5>>, <<1, 1, 1, 1, 100>>)

\* one more ordinary point, at a time that is the end of some intervals
SixthPoint == Univariate(<<6>>, <<1>>)

\* points before and after every interval
Outside == Univariate(<<0, 7>>, <<5, 5>>)

TwoColumns == Series(<<1, 2, 3, 6>>, <<<<1, 7>>, <<1, 7>>, <<1, 7>>, <<9, 7>>>>, <<"a", "b">>)

SeriesPool == {FivePoints, SixthPoint, Outside, TwoColumns}

IInit ==
  /\ \E b \in IntervalBounds, n \in 1..2 : obj = ChangePointInterval(b[1], b[2], n)
  /\ ret = None
  /\ pre = obj
  /\ call = NoCall
  /\ exc = None
  /\ nops = 0
  /\ entered = NoneEntered

Call(c, o) ==
  /\ nops < MaxCalls
  /\ nops' = nops + 1
  /\ pre' = obj
  /\ call' = c
  /\ obj' = o.self
  /\ ret' = o.ret
  /\ exc' = o.exc
  /\ UNCHANGED entered

Bind == \E data \in SeriesPool : Call([op |-> "data", data |-> data], data_setter(obj, data))

ExtendData ==
  \E data \in SeriesPool : Call([op |-> "extend_data", data |-> data], extend_data(obj, data))

ReadSpikes == Call([op |-> "spikes"], spikes(obj))

ReadMean == Call([op |-> "mean_val"], Outcome(obj, mean_val(obj), None))

ReadVariance == Call([op |-> "variance_val"], Outcome(obj, variance_val(obj), None))

ReadLen == Call([op |-> "__len__"], Outcome(obj, [cls |-> "int", v |-> __len__(obj)], None))

INext == Bind \/ ExtendData \/ ReadSpikes \/ ReadMean \/ ReadVariance \/ ReadLen

SpecI == IInit /\ [][INext]_vars

-----------------------------------------------------------------------------
(* Properties of ChangePointInterval *)

RowsInBounds(self) ==
  self.data_df # None =>
    \A k \in 1..Len(self.data_df.rows) :
      /\ self.start_time <= self.data_df.rows[k].time
      /\ self.data_df.rows[k].time < self.end_time

\* the table a second bind to the same series leaves, given the outcome of a
\* first bind, with or without a spikes read in between
SameTableOnRebind(first, data) ==
  LET again == data_setter(first.self, data)
      read == spikes(first.self)
      after == data_setter(read.self, data)
  IN /\ again.exc = None /\ again.self.data_df = first.self.data_df
     /\ after.exc = None /\ after.self.data_df = first.self.data_df

\* C6: after any sequence of bind and extend_data calls every row of the
\* table has start_time <= time < end_time, and whenever a bind to a series
\* succeeds, binding again to that series gives the same table.
C6_RowsInBoundsAndRebindIdempotent ==
  /\ RowsInBounds(obj)
  /\ \A data \in SeriesPool :
       LET first == data_setter(obj, data) IN
       first.exc = None => (RowsInBounds(first.self) /\ SameTableOnRebind(first, data))

C6_Witness ==
  /\ Returned("extend_data")
  /\ pre.data_df # None
  /\ \E i \in 1..Len(call.data.time) : call.data.time[i] = obj.end_time
  /\ Len(pre.data_df.rows) = 5 /\ Len(obj.data_df.rows) = 5

\* what spike detection finds in the table the interval holds now
SpikesOfTable(self) == _detect_spikes([self EXCEPT !._all_spikes = None]).ret

\* C7: every spikes read returns the spikes of the table as it is at the
\* read; a list read before a bind or an extend_data changed the table is
\* not returned again.
C7_SpikesFollowTable ==
  Returned("spikes") => ret = SpikesOfTable(pre)

IsZero(x) ==
  IF x.cls = "ndarray"
  THEN \A i \in 1..Len(x.v) : x.v[i].kind = "fin" /\ x.v[i].num = 0
  ELSE x.kind = "fin" /\ x.num = 0

\* C8: an interval of length 0, never bound or bound to a series with no row
\* inside its bounds, has mean 0 and variance 0 (in every column), not NaN.
C8_EmptyIntervalHasZeroMoments ==
  /\ (call.op = "mean_val" /\ __len__(pre) = 0) => IsZero(ret)
  /\ (call.op = "variance_val" /\ __len__(pre) = 0) => IsZero(ret)

\* a first spikes read on a univariate interval holding 1, 1, 1, 1, 100 with
\* the default threshold
FirstReadOfFivePoints ==
  /\ Returned("spikes")
  /\ pre._all_spikes = None
  /\ pre.num_series = 1
  /\ pre.spike_std_threshold = DefaultSpikeThreshold
  /\ Column(pre.data_df, 1) = <<1, 1, 1, 1, 100>>

\* C10 as stated: the spikes of a univariate interval holding 1, 1, 1, 1, 100
\* with threshold 2.0 are exactly one spike, the point with value 100.
C10_OutlierIsTheOnlySpike ==
  FirstReadOfFivePoints =>
    (Len(ret.list) = 1 /\ ret.list[1].value = 100)

\* C10 as amended: the first spikes read of such an interval returns the
\* empty list; the z-score of the point 100 is 79.2 / sqrt(1960.2), below 2.
C10_OutlierBelowThreshold ==
  FirstReadOfFivePoints =>
    /\ ret.list = <<>>
    /\ \A k \in 1..5 : ~AtLeast(obj.data_df.rows[k].z[1], 2)
    /\ obj.data_df.rows[5].z[1].dev = Fin("float64", 396, 5)
    /\ obj.data_df.rows[5].z[1].var = Fin("float64", 9801, 5)

C10_Witness == FirstReadOfFivePoints /\ obj._all_spikes = [list |-> <<>>]

-----------------------------------------------------------------------------
(* Arithmetic on floats *)

IsZeroFloat(x) == x.kind = "fin" /\ x.num = 0

Sign(n) == IF n > 0 THEN 1 ELSE IF n < 0 THEN -1 ELSE 0

\* the class of the result of an operation on two scalars
ResultCls(a, b) == IF a.cls = "float" /\ b.cls = "float" THEN "float" ELSE "float64"

\* a / b on scalars: dividing a Python float by a Python zero raises; numpy
\* gives a NaN or an infinity instead
ScalarDiv_numpy(a, b) ==
  LET c == ResultCls(a, b) IN
  CASE a.kind = "nan" \/ b.kind = "nan" -> NaN(c)
    [] a.kind = "inf" /\ b.kind = "inf" -> NaN(c)
    [] a.kind = "inf" /\ b.kind = "fin" -> Inf(c, IF b.num < 0 THEN -a.num ELSE a.num)
    [] a.kind = "fin" /\ b.kind = "inf" -> Fin(c, 0, 1)
    [] OTHER -> IF b.num = 0
                THEN IF a.num = 0 THEN NaN(c) ELSE Inf(c, Sign(a.num))
                ELSE Fin(c, a.num * b.den, a.den * b.num)

ScalarDiv(a, b) ==
  IF a.cls = "float" /\ b.cls = "float" /\ IsZeroFloat(b)
  THEN Raised("ZeroDivisionError", "float division by zero")
  ELSE ScalarDiv_numpy(a, b)

ScalarSub(a, b) ==
  LET c == ResultCls(a, b) IN
  CASE a.kind = "nan" \/ b.kind = "nan" -> NaN(c)
    [] a.kind = "inf" /\ b.kind = "inf" -> IF a.num = b.num THEN NaN(c) ELSE Inf(c, a.num)
    [] a.kind = "inf" -> Inf(c, a.num)
    [] b.kind = "inf" -> Inf(c, -b.num)
    [] OTHER -> Fin(c, a.num * b.den - b.num * a.den, a.den * b.den)

\* a * k for a positive integer k
ScalarTimes(a, k) == IF a.kind = "fin" THEN Fin(a.cls, a.num * k, a.den) ELSE a

\* |a| < m for an integer m
AbsLess(a, m) == a.kind = "fin" /\ Abs(a.num) < m * a.den

\* element i of an array, or the scalar itself
Elem(x, i) == IF x.cls = "ndarray" THEN x.v[i] ELSE x

Width(x) == IF x.cls = "ndarray" THEN Len(x.v) ELSE 1

\* an operation on two operands is applied element by element when one of
\* them is an array, a scalar operand being repeated
IsArray(a, b) == a.cls = "ndarray" \/ b.cls = "ndarray"

Cols(a, b) == 1..Max(Width(a), Width(b))

\* a / b
Div(a, b) ==
  IF IsArray(a, b) THEN NdArray([i \in Cols(a, b) |-> ScalarDiv(Elem(a, i), Elem(b, i))])
  ELSE ScalarDiv(a, b)

\* a - b
Sub(a, b) ==
  IF IsArray(a, b) THEN NdArray([i \in Cols(a, b) |-> ScalarSub(Elem(a, i), Elem(b, i))])
  ELSE ScalarSub(a, b)

\* A root is [cls, kind, sign, num, den]: the number sign * sqrt(num/den)
Root(cls, sign, num, den) ==
  LET g == GCD(Abs(num), Abs(den)) IN
  [cls |-> cls, kind |-> "root", sign |-> IF num = 0 THEN 0 ELSE sign,
   num |-> num \div g, den |-> den \div g]

\* diff / sp for a float diff and sp a root, a Python 0.0 or a NaN
OverRoot(diff, sp) ==
  IF diff.cls = "float" /\ sp.cls = "float" /\ sp.num = 0
  THEN Raised("ZeroDivisionError", "float division by zero")
  ELSE CASE diff.kind = "nan" \/ sp.kind = "nan" -> NaN("float64")
         [] diff.kind = "inf" -> Inf("float64", diff.num)
         [] sp.num = 0 -> IF diff.num = 0 THEN NaN("float64")
                          ELSE Inf("float64", Sign(diff.num))
         [] OTHER -> Root("float64", Sign(diff.num),
                          diff.num * diff.num * sp.den, diff.den * diff.den * sp.num)

\* t.sf(np.abs(t_score), df) * 2: NaN for a NaN score or df <= 0, 0 for an
\* infinite score, 1 for a zero score, else the two-sided tail [kind "sf"]
TwoSidedP(t_score, df) ==
  CASE t_score.kind = "nan" \/ df <= 0 -> NaN("float64")
    [] t_score.kind = "inf" -> Fin("float64", 0, 1)
    [] t_score.num = 0 -> Fin("float64", 1, 1)
    [] OTHER -> [cls |-> "float64", kind |-> "sf", num |-> t_score.num,
                 den |-> t_score.den, df |-> df]

IsNegative(t_score) ==
  CASE t_score.kind = "nan" -> FALSE
    [] t_score.kind = "inf" -> t_score.num < 0
    [] t_score.kind = "root" -> t_score.sign < 0
    [] OTHER -> t_score.num < 0

-----------------------------------------------------------------------------
(* PercentageChange *)

PercentageChange(current, previous, skip_rescaling, use_corrected_scores, min_perc_change) ==
  [current |-> current, previous |-> previous,
   upper |-> None, lower |-> None, _t_score |-> None, _p_value |-> None,
   method |-> "fdr_bh", num_series |-> current.num_series,
   skip_rescaling |-> skip_rescaling, use_corrected_scores |-> use_corrected_scores,
   min_perc_change |-> min_perc_change]

ratio_estimate(self) == Div(mean_val(self.current), mean_val(self.previous))

PercOf(ratio) == ScalarTimes(ScalarSub(ratio, Fin("float", 1, 1)), 100)

\* (ratio - 1.0) * 100.0, or the exception that reading the ratio raised
PercOfRatio(r) ==
  IF IsRaised(r) THEN r
  ELSE IF r.cls = "ndarray" THEN NdArray([i \in 1..Width(r) |-> PercOf(r.v[i])])
  ELSE PercOf(r)

perc_change(self) == PercOfRatio(ratio_estimate(self))

_get_df(self) == __len__(self.previous) + __len__(self.current) - 2

\* sqrt(((n_1 - 1) * s_1_sq + (n_2 - 1) * s_2_sq) / (n_1 + n_2 - 2)), times
\* sqrt(1/n_1 + 1/n_2) when scaled, for one pair of variances
PooledRoot(s_1_sq, s_2_sq, n_1, n_2, scaled) ==
  IF s_1_sq.kind # "fin" \/ s_2_sq.kind # "fin" THEN NaN("float64")
  ELSE LET num == (n_1 - 1) * s_1_sq.num * s_2_sq.den + (n_2 - 1) * s_2_sq.num * s_1_sq.den
           den == s_1_sq.den * s_2_sq.den * (n_1 + n_2 - 2)
       IN IF scaled THEN Root("float64", 1, num * (n_1 + n_2), den * n_1 * n_2)
          ELSE Root("float64", 1, num, den)

\* the body of _pooled_stddev on the variances and the lengths it reads
Pooled(s_1_sq, s_2_sq, n_1, n_2, scaled) ==
  IF n_1 = 0 \/ n_2 = 0 \/ (n_1 = n_2 /\ n_2 = 1) THEN PyZero
  ELSE IF IsArray(s_1_sq, s_2_sq)
  THEN NdArray([i \in Cols(s_1_sq, s_2_sq) |->
                  PooledRoot(Elem(s_1_sq, i), Elem(s_2_sq, i), n_1, n_2, scaled)])
  ELSE PooledRoot(s_1_sq, s_2_sq, n_1, n_2, scaled)

\* the divisors of _pooled_stddev had it no early return
PooledDivisors_unguarded(n_1, n_2, scaled) ==
  <<n_1 + n_2 - 2>> \o (IF scaled THEN <<n_1, n_2>> ELSE <<>>)

\* the divisors of _pooled_stddev, in the order it divides: none when it
\* returns 0.0 early, else n_1 + n_2 - 2 for s_p, then n_1 and n_2 for
\* s_p_mean when use_corrected_scores is set
PooledDivisors(n_1, n_2, scaled) ==
  IF n_1 = 0 \/ n_2 = 0 \/ (n_1 = n_2 /\ n_2 = 1) THEN <<>>
  ELSE <<n_1 + n_2 - 2>> \o (IF scaled THEN <<n_1, n_2>> ELSE <<>>)

_pooled_stddev(self) ==
  Pooled(variance_val(self.previous), variance_val(self.current),
         __len__(self.previous), __len__(self.current), self.use_corrected_scores)

\* t_score = diff / sp_mean
TScore(diff, sp_mean) ==
  IF IsArray(diff, sp_mean)
  THEN NdArray([i \in Cols(diff, sp_mean) |-> OverRoot(Elem(diff, i), Elem(sp_mean, i))])
  ELSE OverRoot(diff, sp_mean)

\* (t_score, t.sf(np.abs(t_score), df) * 2), or the exception of the division
WithPValue(t_score, df) ==
  IF IsRaised(t_score) THEN t_score
  ELSE [t_score |-> t_score,
        p_value |-> IF t_score.cls = "ndarray"
                    THEN NdArray([i \in 1..Width(t_score) |-> TwoSidedP(t_score.v[i], df)])
                    ELSE TwoSidedP(t_score, df)]

\* _ttest_manual: (t_score, p_value), or the exception of the division
_ttest_manual(self) ==
  WithPValue(TScore(Sub(mean_val(self.current), mean_val(self.previous)),
                    _pooled_stddev(self)),
             _get_df(self))

\* scipy's ttest_ind(a, b, equal_var=True) on one column: NaN on an empty
\* sample, else the pooled two-sample statistic with n_a + n_b - 2 degrees of
\* freedom
ttest_ind(a, b) ==
  LET n_a == Len(a)
      n_b == Len(b)
  IN IF n_a = 0 \/ n_b = 0 \/ n_a + n_b <= 2
     THEN [t_score |-> NaN("float64"), p_value |-> NaN("float64")]
     ELSE LET var_a == IF n_a = 1 THEN Fin("float64", 0, 1) ELSE NpVar(a)
              var_b == IF n_b = 1 THEN Fin("float64", 0, 1) ELSE NpVar(b)
              t == OverRoot(ScalarSub(NpMean(a), NpMean(b)),
                            PooledRoot(var_b, var_a, n_b, n_a, TRUE))
          IN [t_score |-> t, p_value |-> TwoSidedP(t, n_a + n_b - 2)]

\* multitest.multipletests(p_value_start, alpha, method)[1][i]: the adjusted
\* p-value of column i, kept as the expression it is computed from
Adjusted(method, p_value_start, i) ==
  [cls |-> "float64", kind |-> "adjusted", method |-> method, p |-> p_value_start, i |-> i]

\* t.ppf(q, df), q being p/2 (lower) or 1 - p/2 (upper)
Ppf(upper, p, df) == [cls |-> "float64", kind |-> "ppf", upper |-> upper, p |-> p, df |-> df]

\* the end of _ttest_multivariate: the raw values, or the rescaled ones
Rescale(self, t_value_start, p_value_start) ==
  IF self.skip_rescaling
  THEN Outcome([self EXCEPT !._p_value = p_value_start, !._t_score = t_value_start],
               None, None)
  ELSE LET n == self.num_series
           p == NdArray([i \in 1..n |-> Adjusted(self.method, p_value_start, i)])
           t == NdArray([i \in 1..self.current.num_series |->
                           Ppf(~IsNegative(Elem(t_value_start, i)), p.v[i], _get_df(self))])
       IN Outcome([self EXCEPT !._p_value = p, !._t_score = t], None, None)

\* the result m of _ttest_manual, rescaled and stored; its exception raised
RescaleManual(self, m) ==
  IF IsRaised(m) THEN Outcome(self, None, m) ELSE Rescale(self, m.t_score, m.p_value)

\* the results T[i] of ttest_ind on each column, rescaled and stored
RescaleColumns(self, T) ==
  Rescale(self, NdArray([i \in DOMAIN T |-> T[i].t_score]),
          NdArray([i \in DOMAIN T |-> T[i].p_value]))

\* _ttest_multivariate without its early return for two single points
_ttest_multivariate_rescaled(self) ==
  IF __len__(self.previous) = 1 /\ __len__(self.current) = 1
  THEN Rescale(self, NdArray([i \in 1..self.num_series |-> Inf("float64", 1)]),
               Zeros(self.num_series))
  ELSE IF __len__(self.previous) = 1 \/ __len__(self.current) = 1
  THEN RescaleManual(self, _ttest_manual(self))
  ELSE IF self.current.data_df = None \/ self.previous.data_df = None
  THEN Outcome(self, None, Raised("ValueError", "Interval data not set"))
  ELSE RescaleColumns(self, [i \in 1..self.num_series |->
                               ttest_ind(Column(self.current.data_df, i),
                                         Column(self.previous.data_df, i))])

_ttest_multivariate(self) ==
  IF __len__(self.previous) = 1 /\ __len__(self.current) = 1
  THEN Outcome([self EXCEPT
                  !._t_score = NdArray([i \in 1..self.num_series |-> Inf("float64", 1)]),
                  !._p_value = Zeros(self.num_series)], None, None)
  ELSE IF __len__(self.previous) = 1 \/ __len__(self.current) = 1
  THEN RescaleManual(self, _ttest_manual(self))
  ELSE IF self.current.data_df = None \/ self.previous.data_df = None
  THEN Outcome(self, None, Raised("ValueError", "Interval data not set"))
  ELSE RescaleColumns(self, [i \in 1..self.num_series |->
                               ttest_ind(Column(self.current.data_df, i),
                                         Column(self.previous.data_df, i))])

\* the result m of _ttest_manual stored; its exception raised
StoreManual(self, m) ==
  IF IsRaised(m) THEN Outcome(self, None, m)
  ELSE Outcome([self EXCEPT !._t_score = m.t_score, !._p_value = m.p_value], None, None)

_ttest(self) ==
  IF self.num_series > 1 THEN _ttest_multivariate(self)
  ELSE IF __len__(self.previous) = 1 /\ __len__(self.current) = 1
  THEN Outcome([self EXCEPT !._t_score = NaN("float"), !._p_value = PyZero], None, None)
  ELSE StoreManual(self, _ttest_manual(self))

\* the comparator after the t-test that a read of an unset _t_score or
\* _p_value runs first
Tested(self, unset) == IF unset THEN _ttest(self) ELSE Outcome(self, None, None)

\* the t-score of the comparator o.self, forced to 0 where |perc_change| is
\* below min_perc_change
Clamped(o, pc, min_perc_change) ==
  IF o.exc # None THEN o
  ELSE IF IsRaised(pc) THEN Outcome(o.self, None, pc)
  ELSE IF o.self.num_series = 1
  THEN Outcome(o.self,
               IF AbsLess(pc, min_perc_change) THEN PyZero ELSE o.self._t_score, None)
  ELSE Outcome(o.self,
               NdArray([i \in Cols(o.self._t_score, pc) |->
                          IF AbsLess(Elem(pc, i), min_perc_change)
                          THEN Fin(Elem(o.self._t_score, i).cls, 0, 1)
                          ELSE Elem(o.self._t_score, i)]),
               None)

\* the score property
score(self) ==
  Clamped(Tested(self, self._t_score = None), perc_change(self), self.min_perc_change)

StoredPValue(o) == IF o.exc # None THEN o ELSE Outcome(o.self, o.self._p_value, None)

p_value(self) == StoredPValue(Tested(self, self._p_value = None))

ReturnOrRaise(self, x) ==
  IF IsRaised(x) THEN Outcome(self, None, x) ELSE Outcome(self, x, None)

\* np.cov(x, y)[0, 1] / n_min of the last n_min values of one column of each
\* interval, kept as the expression it is computed from
Cov(x, y, n_min) ==
  [cls |-> "float64", kind |-> "cov", x |-> LastN(x, n_min), y |-> LastN(y, n_min),
   n_min |-> n_min]

\* _calc_cov: np.nan, a Python float, when an interval is unbound or empty
_calc_cov(self) ==
  IF self.current.data_df = None \/ self.previous.data_df = None THEN NaN("float")
  ELSE IF Min(__len__(self.current), __len__(self.previous)) = 0 THEN NaN("float")
  ELSE IF self.num_series > 1
  THEN NdArray([c \in 1..self.num_series |->
                  Cov(Column(self.current.data_df, c), Column(self.previous.data_df, c),
                      Min(__len__(self.current), __len__(self.previous)))])
  ELSE Cov(Column(self.current.data_df, 1), Column(self.previous.data_df, 1),
           Min(__len__(self.current), __len__(self.previous)))

\* a Python float divided by a Python float that is zero raises; cls and zero
\* describe the divisor
PyDivRaises(num_cls, cls, zero) == num_cls = "float" /\ cls = "float" /\ zero

\* sigma_sq_ratio of _delta_method: the exception of the first of its three
\* divisions that raises, else the value as the expression it is computed from
SigmaSqRatio(test_mean, control_mean, test_var, control_var, n_test, n_control, cov_xy) ==
  IF \/ PyDivRaises(test_var.cls, control_mean.cls,
                    n_test = 0 \/ IsZeroFloat(control_mean))
     \/ PyDivRaises(ResultCls(test_mean, cov_xy), control_mean.cls,
                    IsZeroFloat(control_mean))
     \/ PyDivRaises(ResultCls(control_var, test_mean), control_mean.cls,
                    n_control = 0 \/ IsZeroFloat(control_mean))
  THEN Raised("ZeroDivisionError", "float division by zero")
  ELSE [cls |-> "float64", kind |-> "sigma_sq_ratio",
        test_mean |-> test_mean, control_mean |-> control_mean,
        test_var |-> test_var, control_var |-> control_var,
        n_test |-> n_test, n_control |-> n_control, cov_xy |-> cov_xy]

\* ratio + sign * norm.ppf(alpha / 2) * np.sqrt(abs(sigma_sq_ratio))
RatioBound(ratio, sign, sigma_sq_ratio) ==
  [cls |-> "float64", kind |-> "bound", ratio |-> ratio, sign |-> sign,
   sigma_sq_ratio |-> sigma_sq_ratio]

\* the end of _delta_method: lower and upper are assigned from ratio_estimate,
\* read once for each
StoreBounds(self, sigma_sq_ratio, ratio) ==
  IF IsRaised(sigma_sq_ratio) THEN Outcome(self, None, sigma_sq_ratio)
  ELSE IF IsRaised(ratio) THEN Outcome(self, None, ratio)
  ELSE Outcome([self EXCEPT !.lower = RatioBound(ratio, 1, sigma_sq_ratio),
                            !.upper = RatioBound(ratio, -1, sigma_sq_ratio)],
               None, None)

_delta_method(self) ==
  StoreBounds(self,
              SigmaSqRatio(mean_val(self.current), mean_val(self.previous),
                           variance_val(self.current), variance_val(self.previous),
                           __len__(self.current), __len__(self.previous),
                           _calc_cov(self)),
              ratio_estimate(self))

\* the comparator after the delta method that a read of an unset bound runs
\* first
Bounded(self, unset) == IF unset THEN _delta_method(self) ELSE Outcome(self, None, None)

\* (bound - 1) * 100.0
PercOfBound(bound) == [cls |-> "float64", kind |-> "perc_of_bound", bound |-> bound]

StoredUpper(o) ==
  IF o.exc # None THEN o ELSE Outcome(o.self, PercOfBound(o.self.upper), None)

StoredLower(o) ==
  IF o.exc # None THEN o ELSE Outcome(o.self, PercOfBound(o.self.lower), None)

perc_change_upper(self) == StoredUpper(Bounded(self, self.upper = None))

perc_change_lower(self) == StoredLower(Bounded(self, self.lower = None))

\* 1 when the outcome is no exception
Unless(o, k) == IF o.exc = None THEN k ELSE 0

\* how often a read of property op on the comparator starts the division of
\* ratio_estimate, _ttest and _delta_method, as if ratio_estimate kept its
\* value after the first read
Entered_stored(self, op, before) ==
  CASE op \in {"ratio_estimate", "perc_change"} ->
         [NoneEntered EXCEPT !.ratio_estimate = IF before.ratio_estimate = 0 THEN 1 ELSE 0]
    [] op = "score" ->
         [NoneEntered EXCEPT
            !._ttest = IF self._t_score = None THEN 1 ELSE 0,
            !.ratio_estimate = IF before.ratio_estimate = 0
                               THEN Unless(Tested(self, self._t_score = None), 1)
                               ELSE 0]
    [] op = "p_value" ->
         [NoneEntered EXCEPT !._ttest = IF self._p_value = None THEN 1 ELSE 0]
    [] op = "perc_change_upper" ->
         IF self.upper # None THEN NoneEntered
         ELSE [NoneEntered EXCEPT
                 !._delta_method = 1,
                 !.ratio_estimate = IF before.ratio_estimate = 0
                                    THEN Unless(_delta_method(self), 1) ELSE 0]
    [] op = "perc_change_lower" ->
         IF self.lower # None THEN NoneEntered
         ELSE [NoneEntered EXCEPT
                 !._delta_method = 1,
                 !.ratio_estimate = IF before.ratio_estimate = 0
                                    THEN Unless(_delta_method(self), 1) ELSE 0]

\* how often a read of property op on the comparator starts the division of
\* ratio_estimate, _ttest and _delta_method: score reads perc_change after
\* the t-test, _delta_method reads ratio_estimate for lower and for upper
Entered(self, op, before) ==
  CASE op \in {"ratio_estimate", "perc_change"} ->
         [NoneEntered EXCEPT !.ratio_estimate = 1]
    [] op = "score" ->
         [NoneEntered EXCEPT
            !._ttest = IF self._t_score = None THEN 1 ELSE 0,
            !.ratio_estimate = Unless(Tested(self, self._t_score = None), 1)]
    [] op = "p_value" ->
         [NoneEntered EXCEPT !._ttest = IF self._p_value = None THEN 1 ELSE 0]
    [] op = "perc_change_upper" ->
         IF self.upper # None THEN NoneEntered
         ELSE [NoneEntered EXCEPT !._delta_method = 1,
                                  !.ratio_estimate = Unless(_delta_method(self), 2)]
    [] op = "perc_change_lower" ->
         IF self.lower # None THEN NoneEntered
         ELSE [NoneEntered EXCEPT !._delta_method = 1,
                                  !.ratio_estimate = Unless(_delta_method(self), 2)]

-----------------------------------------------------------------------------
(* The comparators the reads are tried on *)

\* longest sequence of reads on one comparator
MaxReads == 2

\* an interval as constructed, or as constructed and bound to a series of as
\* many columns as it was constructed with
ComparedIntervals(n) ==
  {ChangePointInterval(b[1], b[2], n) : b \in IntervalBounds}
  \cup {data_setter(ChangePointInterval(b[1], b[2], n), d).self :
          b \in IntervalBounds, d \in {x \in SeriesPool : Len(x.columns) = n}}

PInit ==
  /\ \E n \in 1..2 :
       \E current \in ComparedIntervals(n), previous \in ComparedIntervals(n) :
         \E skip_rescaling \in BOOLEAN, use_corrected_scores \in BOOLEAN, m \in {0, 50} :
           obj = PercentageChange(current, previous, skip_rescaling,
                                  use_corrected_scores, m)
  /\ ret = None
  /\ pre = obj
  /\ call = NoCall
  /\ exc = None
  /\ nops = 0
  /\ entered = NoneEntered

Read(c, o) ==
  /\ nops < MaxReads
  /\ nops' = nops + 1
  /\ pre' = obj
  /\ call' = c
  /\ obj' = o.self
  /\ ret' = o.ret
  /\ exc' = o.exc
  /\ entered' = [k \in DOMAIN entered |-> entered[k] + Entered(obj, c.op, entered)[k]]

ReadRatioEstimate ==
  Read([op |-> "ratio_estimate"], ReturnOrRaise(obj, ratio_estimate(obj)))

ReadPercChange == Read([op |-> "perc_change"], ReturnOrRaise(obj, perc_change(obj)))

ReadScore == Read([op |-> "score"], score(obj))

ReadPValue == Read([op |-> "p_value"], p_value(obj))

ReadPercChangeUpper == Read([op |-> "perc_change_upper"], perc_change_upper(obj))

ReadPercChangeLower == Read([op |-> "perc_change_lower"], perc_change_lower(obj))

PNext ==
  \/ ReadRatioEstimate
  \/ ReadPercChange
  \/ ReadScore
  \/ ReadPValue
  \/ ReadPercChangeUpper
  \/ ReadPercChangeLower

SpecP == PInit /\ [][PNext]_vars

-----------------------------------------------------------------------------
(* Properties of PercentageChange *)

\* an interval of no row (unbound or empty), of one row, or of zero variance
DegenerateSide(interval) ==
  \/ __len__(interval) <= 1
  \/ IF interval.num_series = 1 THEN IsZeroFloat(variance_val(interval))
     ELSE \E i \in 1..Len(interval._ts_cols) : IsZeroFloat(variance_val(interval).v[i])

\* C9: reading ratio_estimate, perc_change, score or p_value of a comparator
\* with a degenerate side (no row, one row or zero variance) raises nothing:
\* the read returns a value.
C9_DegenerateReadsDoNotRaise ==
  (/\ call.op \in {"ratio_estimate", "perc_change", "score", "p_value"}
   /\ (DegenerateSide(pre.current) \/ DegenerateSide(pre.previous)))
    => (exc = None /\ ret # None)

\* both intervals of the comparator hold exactly one point
OnePointEach(self) == __len__(self.previous) = 1 /\ __len__(self.current) = 1

\* C11: after a read of score or p_value on a comparator whose previous and
\* current intervals hold one point each, the stored t-score is NaN and the
\* stored p-value 0 when univariate, and the t-score is +infinity and the
\* p-value 0 in every column when multivariate, with or without
\* skip_rescaling and use_corrected_scores: the values are stored as set,
\* not adjusted by the multiple-testing correction.
C11_OnePointTTest ==
  (call.op \in {"score", "p_value"} /\ OnePointEach(pre)) =>
    /\ exc = None
    /\ IF pre.num_series = 1
       THEN obj._t_score = NaN("float") /\ obj._p_value = PyZero
       ELSE /\ obj._t_score = NdArray([i \in 1..pre.num_series |-> Inf("float64", 1)])
            /\ obj._p_value = Zeros(pre.num_series)

C11_Witness ==
  /\ call.op = "p_value"
  /\ OnePointEach(pre)
  /\ pre.num_series = 2
  /\ ~pre.skip_rescaling
  /\ pre._p_value = None
  /\ ret = Zeros(2)

Starts(k) == entered[k]' > entered[k]

-----------------------------------------------------------------------------
(* More properties of AnomalyResponse *)

\* the row that inplace_update writes from the argument of one component
Written(self, value) ==
  IF self.num_series = 1 THEN value.v
  ELSE IF value.float THEN [i \in 1..self.num_series |-> value.v]
  ELSE value.v

-----------------------------------------------------------------------------
(* The pooled standard deviation *)

\* the divisors that _pooled_stddev of the comparator uses
DivisorsOf(self) ==
  PooledDivisors(__len__(self.previous), __len__(self.current), self.use_corrected_scores)

\* the degrees of freedom n_1 + n_2 - 2 of the comparator
DfOf(self) == __len__(self.previous) + __len__(self.current) - 2

\* C14 as stated: the pooled standard deviation divides by no zero and no
\* negative number; it is 0, with no division, when n_1 + n_2 - 2 <= 0, and
\* otherwise it divides by n_1 + n_2 - 2 > 0 with n_1 > 0 and n_2 > 0.
C14_DividesExactlyWhenDfPositive ==
  /\ \A k \in DOMAIN DivisorsOf(obj) : DivisorsOf(obj)[k] > 0
  /\ DfOf(obj) <= 0 => (DivisorsOf(obj) = <<>> /\ _pooled_stddev(obj) = PyZero)
  /\ DfOf(obj) > 0 => /\ DivisorsOf(obj) # <<>>
                      /\ DivisorsOf(obj)[1] = DfOf(obj)
                      /\ __len__(obj.previous) > 0
                      /\ __len__(obj.current) > 0

\* C14 as amended: the pooled standard deviation divides by no zero and no
\* negative number; it is 0, with no division, exactly when n_1 = 0 or
\* n_2 = 0 or n_1 = n_2 = 1, which is the case whenever n_1 + n_2 - 2 <= 0
\* and also when one interval is empty and the other holds three points or
\* more; in every other case it divides by n_1 + n_2 - 2 > 0, with n_1 > 0
\* and n_2 > 0.
C14_DividesByPositiveOnly ==
  /\ \A k \in DOMAIN DivisorsOf(obj) : DivisorsOf(obj)[k] > 0
  /\ DfOf(obj) <= 0 => DivisorsOf(obj) = <<>>
  /\ DivisorsOf(obj) = <<>> <=> \/ __len__(obj.previous) = 0
                                \/ __len__(obj.current) = 0
                                \/ OnePointEach(obj)
  /\ DivisorsOf(obj) = <<>> <=> _pooled_stddev(obj) = PyZero
  /\ DivisorsOf(obj) # <<>> => /\ DivisorsOf(obj)[1] = DfOf(obj)
                               /\ __len__(obj.previous) > 0
                               /\ __len__(obj.current) > 0

C14_Witness ==
  /\ call.op = "score"
  /\ exc = None
  /\ __len__(obj.previous) = 0
  /\ __len__(obj.current) >= 3
  /\ DfOf(obj) > 0
  /\ _pooled_stddev(obj) = PyZero

-----------------------------------------------------------------------------
(* More properties of ChangePointInterval *)

\* x is a scalar for one column, else an array of n entries
ShapedFor(x, n) ==
  IF n = 1 THEN x.cls \in {"float", "float64"}
  ELSE x.cls = "ndarray" /\ Len(x.v) = n

\* C15: after a bind that returns, num_series is the number of columns of the
\* bound series and the number of column names the interval keeps, whatever
\* the interval was constructed with and held before; mean_val and
\* variance_val are a scalar for a univariate series and an array of
\* num_series entries for a multivariate one.
C15_SeriesCountFollowsBind ==
  Returned("data") =>
    /\ obj.num_series = Len(call.data.columns)
    /\ Len(obj._ts_cols) = Len(call.data.columns)
    /\ ShapedFor(mean_val(obj), Len(call.data.columns))
    /\ ShapedFor(variance_val(obj), Len(call.data.columns))

-----------------------------------------------------------------------------
(* Exceptions of extend *)

\* C16: extend(other) with other no AnomalyResponse raises TypeError, and
\* extend(other) with an optional component present on one side only raises
\* the mismatch ValueError; in both cases the receiver is as it was before
\* the call, no component having been concatenated.
C16_ExtendChecksBeforeConcatenating ==
  call.op = "extend" =>
    /\ ~IsResponse(call.other) =>
         (IsRaised(exc) /\ exc.type = "TypeError" /\ obj = pre)
    /\ (IsResponse(call.other) /\ PresenceDiffers(pre, call.other)) =>
         (IsRaised(exc) /\ exc.type = "ValueError" /\ exc.msg \in OptionalNames /\ obj = pre)
    /\ (IsRaised(exc) /\ (exc.type = "TypeError" \/ exc.msg \in OptionalNames)) => obj = pre

C16_Witness ==
  /\ call.op = "extend"
  /\ IsResponse(call.other)
  /\ Length(pre) >= 1
  /\ pre.confidence_band # None /\ call.other.confidence_band # None
  /\ pre.predicted_ts # None /\ call.other.predicted_ts # None
  /\ pre.stat_sig_ts # None /\ call.other.stat_sig_ts = None
  /\ IsRaised(exc) /\ exc.msg = "stat_sig_ts"
  /\ obj = pre

=============================================================================
